---------------------------- MODULE Spec2Model ----------------------------
(***************************************************************************)
(* Swarm motion engine of ParticleSystem.js: the uniform grid used for     *)
(* neighbour queries (SpatialGrid), the per-peak pairing state machine     *)
(* (_findPairs, _applyPairingForces, _breakPair) and the tick              *)
(* orchestration of update(), together with the external calls that       *)
(* change the population and the lock flags between ticks.                 *)
(*                                                                         *)
(* Conventions.  JavaScript arrays are sequences, so JS index i is index   *)
(* i + 1 here; "no partner" keeps the source's sentinel -1.  A Vector3 is   *)
(* the triple <<x, z, y>> of integers: the two planar components first,    *)
(* the vertical component last.  Distances are compared squared, which is  *)
(* exact on integer coordinates.  The force accumulation of a tick is      *)
(* real-valued and random; its planar part is abstracted to the            *)
(* displacement it produces, any element of Moves (all of length at most   *)
(* maxVelocity = 1.5), its vertical part to the unit step verticalMove.    *)
(* A random draw is a nondeterministic choice.  The clamp of the velocity  *)
(* itself is modelled in fixed-point arithmetic in SpecVelocity.           *)
(***************************************************************************)
EXTENDS Integers, Sequences, FiniteSets, TLC

\* ------------------------------------------------------------------ bounds
MaxPeaks == 3          \* largest population a regeneration may ask for
InitPeaks == 2         \* peaks created by initPeaks (numPeaks, scaled down)
MaxCalls == 4          \* external calls made between ticks in one behaviour
MaxTicks == 2          \* executed ticks in one behaviour
LongCalls == 2         \* long specification: external calls in one behaviour
LongTicks == 5         \* long specification: executed ticks in one behaviour
SoftCalls == 3         \* soft-lock specification: external calls
SoftTicks == 3         \* soft-lock specification: executed ticks
\* timer lengths of motionSystem, scaled down from 480 / 240 / 300 ticks
pairMinFrames == 1
pairCooldown == 2
breakGraceFrames == 3
GridPeaks == 2         \* grid specification: peaks inserted into the grid

\* ------------------------------------------------------- program constants
cellSize == 50         \* new SpatialGrid(50)
pairFormRadius == 25
pairKeepRadius == 35
peakSpacing == 30      \* initPeaks / repositionPeaks
minSeparation == 30
complementaryRange == 35
evolvingMoveSpeed == 12   \* the lerp factor 0.12, in hundredths
frameSkip == 2         \* Math.floor(updateInterval / 16) with updateInterval 40

NoPartner == 0 - 1

Categories == {"low", "mid", "high", "rhythmic"}
NoCategory == "none"   \* a solid whose solution carries no category

\* the lookup with one wrong entry: 'rhythmic' -> 'low'
complementary_mapWrongEntry(c) ==
    CASE c = "low" -> "mid"
      [] c = "high" -> "mid"
      [] c = "mid" -> "rhythmic"
      [] c = "rhythmic" -> "low"
      [] OTHER -> "undefined"

\* complementary_map[c] of the source
complementary_map(c) ==
    CASE c = "low" -> "mid"
      [] c = "high" -> "mid"
      [] c = "mid" -> "rhythmic"
      [] c = "rhythmic" -> "mid"
      [] OTHER -> "undefined"

\* catB && (complementary_map[catA] === catB || complementary_map[catB] === catA)
complementary(catA, catB) ==
    /\ catB # NoCategory
    /\ \/ complementary_map(catA) = catB
       \/ complementary_map(catB) = catA

\* ------------------------------------------------------------ input sets
\* solution lists handed to regenerateWithSolutions: the categories of the
\* first n solutions of one of these lists
CategoryLists ==
    { <<"mid", "rhythmic", "low", "high", "mid">>,
      <<"low", "low", "none", "mid", "high">> }

\* targets handed to startEvolvingAlignmentInstant (the caller lays the
\* targets out along z at x = 0, a single target at z = 0)
SnapTargets == { <<0, 0>>, <<0, 10>>, <<0, 100>> }

\* the vertical component a target may carry (the caller passes the y the
\* peak has; the engine accepts any)
TargetHeights == { 0, 20 }

\* targets handed to startEvolvingAlignment
SoftTargets == { <<0, 10>> }

\* a target two units from the layout position of the last peak, reached
\* within two ticks, and a target far beyond the population
WideTargets == { <<0, 2>>, <<0, 0 - 450>> }
WideHeights == { 0 }

\* the category whose solids a category filter leaves visible
FilterCategories == { "mid", "rhythmic" }

\* planar displacements one integration step may produce: |v| <= maxVelocity
Moves == { <<0, 0>>, <<0, 1>> }

\* a heading is represented by the number of smoothing updates (line 1318)
\* applied to it since it was drawn; a freshly drawn random unit vector is 0
Headings == { 0 }
Hole == 0 - 1          \* an index of a sparse array that was never written

\* --------------------------------------------------------------- vectors
Vx(p) == p[1]
Vz(p) == p[2]
Vy(p) == p[3]
add(p, v) == <<p[1] + v[1], p[2] + v[2], p[3] + v[3]>>
Sq(n) == n * n
\* Vector3.distanceTo, squared
distanceSq(a, b) == Sq(a[1] - b[1]) + Sq(a[2] - b[2]) + Sq(a[3] - b[3])
Zero == <<0, 0, 0>>
\* new THREE.Vector3(x, y, z)
Vector3(x, y, z) == <<x, z, y>>


\* ----------------------------------------------------------------- state
VARIABLES
    peaks,            \* this.peaks: records of one peak each
    peakSolids,       \* this.peakSolids: the category of the solid of each peak
    pairStates,       \* this._pairStates
    pairDirections,   \* this._pairDirections (sparse)
    lastPositions,    \* this._lastPositions
    velocities,       \* this._velocities
    grid,             \* this.spatialGrid.grid: cell key -> indices inserted
    frameCounter,     \* this.frameCounter modulo frameSkip
    evolvingActive,   \* this.evolvingActive
    pc,               \* position inside update(): "idle" between calls
    k,                \* index of the per-peak loop of update()
    calls,            \* external calls made so far
    ticks,            \* executed ticks so far
    query,            \* grid specification: the last getNearby request
    nearby,           \* grid specification: what getNearby returned
    categoryFilterActive,  \* this.categoryFilterActive
    stopAllMovement,  \* this.stopAllMovement (set by the save mode)
    contrib,          \* what entered forceOffset of the peak integrated last
    desiredVel,       \* velocity specification: the local desiredVel
    gridCellSize,     \* this.spatialGrid.cellSize
    lastBreak,        \* history: when, from whom and how each peak last broke
    preTick           \* history: the positions at the start of the running tick

vars == <<peaks, peakSolids, pairStates, pairDirections, lastPositions,
          velocities, grid, frameCounter, evolvingActive, pc, k, calls,
          ticks, query, nearby,
                   categoryFilterActive, stopAllMovement, contrib, desiredVel, gridCellSize,
                   lastBreak, preTick>>

engineVars == <<peaks, peakSolids, pairStates, pairDirections, lastPositions,
                velocities, frameCounter, evolvingActive, pc, k, calls, ticks,
                categoryFilterActive, stopAllMovement, contrib, desiredVel, gridCellSize,
                   lastBreak, preTick>>

engineVarsButK == <<peaks, peakSolids, pairStates, pairDirections,
                    lastPositions, velocities, frameCounter, evolvingActive,
                    pc, calls, ticks, categoryFilterActive, stopAllMovement,
                    contrib, desiredVel, gridCellSize,
                   lastBreak, preTick>>

count == Len(peaks)

\* ------------------------------------------------------------ SpatialGrid
\* Math.floor(v / cellSize); \div rounds toward minus infinity
cellCoord(v) == v \div cellSize

\* _hash(x, z): the key `${cx},${cz}`, one string per pair of cell numbers
hash(x, z) == <<cellCoord(x), cellCoord(z)>>

EmptyGrid == << >>

\* insert(index, position)
insert(g, index, position) ==
    LET key == hash(Vx(position), Vz(position))
    IN  IF key \in DOMAIN g
          THEN [g EXCEPT ![key] = Append(@, index)]
          ELSE g @@ (key :> <<index>>)

\* the cell count rounded down instead of up
cellsForFloor(radius) == radius \div cellSize

\* Math.ceil(radius / cellSize) for radius >= 0
cellsFor(radius) == (radius + cellSize - 1) \div cellSize

\* the cells getNearby visits, in visiting order: dx outer, dz inner
RECURSIVE cellScan(_, _, _, _, _, _)
cellScan(g, cx, cz, cells, dx, dz) ==
    IF dx > cells THEN << >>
    ELSE IF dz > cells THEN cellScan(g, cx, cz, cells, dx + 1, 0 - cells)
    ELSE LET key == <<cx + dx, cz + dz>>
             cell == IF key \in DOMAIN g THEN g[key] ELSE << >>
         IN  cell \o cellScan(g, cx, cz, cells, dx, dz + 1)

\* getNearby(position, radius)
getNearby(g, position, radius) ==
    LET cells == cellsFor(radius)
        cx == cellCoord(Vx(position))
        cz == cellCoord(Vz(position))
    IN  cellScan(g, cx, cz, cells, 0 - cells, 0 - cells)

\* clear() followed by insert(i, peaks[i].currentPyramidCenter) for every peak
RECURSIVE insertAll(_, _, _)
insertAll(g, ps, i) ==
    IF i > Len(ps) THEN g
    ELSE insertAll(insert(g, i, ps[i].currentPyramidCenter), ps, i + 1)

rebuildGrid(ps) == insertAll(EmptyGrid, ps, 1)

Range(s) == { s[i] : i \in DOMAIN s }

\* ------------------------------------------------------------ peak records
\* a peak without the property evolvingTargetCenter
NoTarget == << >>

\* the layout repositionPeaks gives peak i of n: x = i * 30 - n * 30 / 2
layoutX(i, n) == (i - 1) * peakSpacing - (n * peakSpacing) \div 2

\* createSinglePeak / initPeaks, as left by repositionPeaks
newPeak(i, n) ==
    [ currentPyramidCenter |-> Vector3(layoutX(i, n), 0, 0),
      categoryVisible |-> TRUE,
      evolvingLock |-> FALSE,
      evolvingTargetCenter |-> NoTarget,
      ticked |-> FALSE ]

\* the entry update() pushes on _pairStates
DefaultPairState ==
    [ partner |-> NoPartner, frames |-> 0, cooldown |-> 0,
      breakGrace |-> 0, breakPartner |-> NoPartner ]

\* history entry of a peak that never broke a pair
NoBreak == [ tick |-> 0, partner |-> NoPartner, by |-> "none", formed |-> 0 ]

\* the history of breaks after a step that took the pair states from
\* `before` to `after` in tick `tick`: a peak whose partner went from a peak
\* to none broke from that peak, by the distance check or by the draw
noteBreaks(lb, before, after, tick, by) ==
    [i \in DOMAIN lb |->
        IF /\ i \in DOMAIN before
           /\ before[i].partner # NoPartner
           /\ after[i].partner = NoPartner
          THEN [ tick |-> tick, partner |-> before[i].partner, by |-> by,
                 formed |-> lb[i].formed ]
          ELSE lb[i]]

\* the history after the formation pass of tick `tick`: a peak whose partner
\* went from none to a peak formed a pair in that tick
noteForms(lb, before, after, tick) ==
    [i \in DOMAIN lb |->
        IF /\ i \in DOMAIN before
           /\ before[i].partner = NoPartner
           /\ after[i].partner # NoPartner
          THEN [lb[i] EXCEPT !.formed = tick]
          ELSE lb[i]]

\* while (a.length < n) a.push(v)
RECURSIVE growTo(_, _, _)
growTo(a, n, v) == IF Len(a) >= n THEN a ELSE growTo(Append(a, v), n, v)


\* ---------------------------------------------------------- _findPairs
\* the countdown that leaves breakPartner in place when the grace runs out
decayStateKeepPartner(st) ==
    LET cd == IF st.cooldown > 0 THEN st.cooldown - 1 ELSE st.cooldown
        bg == IF st.breakGrace > 0 THEN st.breakGrace - 1 ELSE st.breakGrace
    IN  [st EXCEPT !.cooldown = cd, !.breakGrace = bg]

\* lines 1048-1055: cooldown and break grace count down on every entry
decayState(st) ==
    LET cd == IF st.cooldown > 0 THEN st.cooldown - 1 ELSE st.cooldown
        bg == IF st.breakGrace > 0 THEN st.breakGrace - 1 ELSE st.breakGrace
        bp == IF st.breakGrace > 0 /\ bg = 0 THEN NoPartner ELSE st.breakPartner
    IN  [st EXCEPT !.cooldown = cd, !.breakGrace = bg, !.breakPartner = bp]

decayAll(ps) == [i \in DOMAIN ps |-> decayState(ps[i])]

\* the distance break without the cooldown
distanceBrokenNoCooldown(st, other) ==
    [st EXCEPT !.breakGrace = breakGraceFrames, !.breakPartner = other,
               !.partner = NoPartner, !.frames = 0]

\* lines 1082-1094: what the distance check writes on one member
distanceBroken(st, other) ==
    [st EXCEPT !.breakGrace = breakGraceFrames, !.breakPartner = other,
               !.partner = NoPartner, !.frames = 0, !.cooldown = pairCooldown]

\* lines 1067-1096: the loop over _pairStates, entry i onwards
RECURSIVE breakLoop(_, _, _)
breakLoop(ps, pk, i) ==
    IF i > Len(ps) THEN ps
    ELSE LET partnerIdx == ps[i].partner
         IN  IF partnerIdx = NoPartner THEN breakLoop(ps, pk, i + 1)
             ELSE IF \/ i > Len(pk)
                     \/ partnerIdx > Len(pk)
                     \/ partnerIdx > Len(ps)
                    THEN breakLoop(ps, pk, i + 1)
             ELSE IF distanceSq(pk[i].currentPyramidCenter,
                                pk[partnerIdx].currentPyramidCenter)
                       > Sq(pairKeepRadius)
                    THEN breakLoop(
                           [ps EXCEPT ![i] = distanceBroken(@, partnerIdx),
                                      ![partnerIdx] = distanceBroken(@, i)],
                           pk, i + 1)
             ELSE breakLoop(ps, pk, i + 1)

\* the category the formation pass reads for peak i:
\* solid?.userData?.solution?.actual_category ?? ...assigned_category
categoryOf(solids, i) == IF i <= Len(solids) THEN solids[i] ELSE NoCategory

\* the candidate test without the cooldown condition on the candidate
candidateSkippedNoCooldown(ps, solids, i, j) ==
    \/ i = j
    \/ ps[j].partner # NoPartner
    \/ ~complementary(categoryOf(solids, i), categoryOf(solids, j))

\* lines 1120-1131: candidate j of searching peak i is passed over
candidateSkipped(ps, solids, i, j) ==
    \/ i = j
    \/ ps[j].partner # NoPartner
    \/ ps[j].cooldown > 0
    \/ ~complementary(categoryOf(solids, i), categoryOf(solids, j))

\* the scan that takes a candidate only when it is strictly nearer than
\* bestDist
RECURSIVE bestPartnerScanStrict(_, _, _, _, _, _, _)
bestPartnerScanStrict(ps, pk, solids, i, cands, n, best) ==
    IF n > Len(cands) THEN best
    ELSE LET j == cands[n]
             dist == distanceSq(pk[i].currentPyramidCenter,
                                pk[j].currentPyramidCenter)
         IN  IF ~candidateSkipped(ps, solids, i, j) /\ dist < best[2]
               THEN bestPartnerScanStrict(ps, pk, solids, i, cands, n + 1, <<j, dist>>)
               ELSE bestPartnerScanStrict(ps, pk, solids, i, cands, n + 1, best)

\* lines 1119-1138: the scan of the candidates, candidate n onwards;
\* best is <<bestPartner, bestDist squared>>
RECURSIVE bestPartnerScan(_, _, _, _, _, _, _)
bestPartnerScan(ps, pk, solids, i, cands, n, best) ==
    IF n > Len(cands) THEN best
    ELSE LET j == cands[n]
             dist == distanceSq(pk[i].currentPyramidCenter,
                                pk[j].currentPyramidCenter)
         IN  IF ~candidateSkipped(ps, solids, i, j) /\ dist <= best[2]
               THEN bestPartnerScan(ps, pk, solids, i, cands, n + 1, <<j, dist>>)
               ELSE bestPartnerScan(ps, pk, solids, i, cands, n + 1, best)

\* lines 1110-1138: bestPartner of peak i, NoPartner when there is none
bestPartnerOf(ps, pk, solids, g, i) ==
    bestPartnerScan(ps, pk, solids, i,
                    getNearby(g, pk[i].currentPyramidCenter, pairFormRadius),
                    1, <<NoPartner, Sq(pairFormRadius)>>)[1]

\* the link with the searching peak written as its own partner
linkPairSelf(ps, i, bestPartner) ==
    [ps EXCEPT ![i] = [@ EXCEPT !.partner = i, !.frames = 0],
               ![bestPartner] = [@ EXCEPT !.partner = i, !.frames = 0]]

\* lines 1141-1144: the symmetric link
linkPair(ps, i, bestPartner) ==
    [ps EXCEPT ![i] = [@ EXCEPT !.partner = bestPartner, !.frames = 0],
               ![bestPartner] = [@ EXCEPT !.partner = i, !.frames = 0]]

\* a[idx] = v on a sparse array: the indices in between stay holes
setSparse(a, idx, v) ==
    IF idx <= Len(a) THEN [a EXCEPT ![idx] = v]
    ELSE growTo(a, idx - 1, Hole) \o <<v>>

Min(a, b) == IF a < b THEN a ELSE b

\* lines 1146-1151: the shared heading is created when absent
ensureDirection(dirs, pairIndex, h) ==
    IF pairIndex <= Len(dirs) /\ dirs[pairIndex] # Hole THEN dirs
    ELSE setSparse(dirs, pairIndex, h)

\* the searcher test with the cooldown compared by >= instead of >
searcherSkippedAtZero(ps, solids, i) ==
    \/ ps[i].partner # NoPartner
    \/ ps[i].cooldown >= 0
    \/ categoryOf(solids, i) = NoCategory

\* lines 1100-1108: peak i does not search for a partner
searcherSkipped(ps, solids, i) ==
    \/ ps[i].partner # NoPartner
    \/ ps[i].cooldown > 0
    \/ categoryOf(solids, i) = NoCategory

\* lines 1099-1153: the formation loop, peak i onwards; h is the random
\* heading a new pair direction takes; the result is
\* <<pair states, pair directions>>
RECURSIVE formLoop(_, _, _, _, _, _, _)
formLoop(ps, dirs, pk, solids, g, h, i) ==
    IF i > Len(pk) THEN <<ps, dirs>>
    ELSE IF searcherSkipped(ps, solids, i)
           THEN formLoop(ps, dirs, pk, solids, g, h, i + 1)
    ELSE LET bestPartner == bestPartnerOf(ps, pk, solids, g, i)
         IN  IF bestPartner = NoPartner
               THEN formLoop(ps, dirs, pk, solids, g, h, i + 1)
               ELSE formLoop(linkPair(ps, i, bestPartner),
                             ensureDirection(dirs, Min(i, bestPartner), h),
                             pk, solids, g, h, i + 1)

\* ---------------------------------------------------------- _breakPair
\* _breakPair that leaves the frame count of the member
pairBrokenKeepsFrames(st, other) ==
    [st EXCEPT !.partner = NoPartner, !.cooldown = pairCooldown,
               !.breakGrace = breakGraceFrames, !.breakPartner = other]

\* _breakPair that starts no cooldown
pairBrokenNoCooldown(st, other) ==
    [st EXCEPT !.partner = NoPartner, !.frames = 0, !.cooldown = 0,
               !.breakGrace = breakGraceFrames, !.breakPartner = other]

\* lines 1371-1380 / 1383-1394: what _breakPair writes on one member
pairBroken(st, other) ==
    [st EXCEPT !.partner = NoPartner, !.frames = 0, !.cooldown = pairCooldown,
               !.breakGrace = breakGraceFrames, !.breakPartner = other]

\* _breakPair that forgets member B
breakPairOneSided(ps, indexA, indexB) ==
    [ps EXCEPT ![indexA] = pairBroken(@, indexB)]

\* _breakPair(indexA, indexB, ...)
breakPair(ps, indexA, indexB) ==
    LET a == [ps EXCEPT ![indexA] = pairBroken(@, indexB)]
    IN  IF indexB <= Len(ps) /\ indexB >= 1
          THEN [a EXCEPT ![indexB] = pairBroken(@, indexA)]
          ELSE a


\* ------------------------------------------------- _applyPairingForces
\* the draw evaluated for every processed peak
drawPerformedAlways(ps, pk, index) == TRUE

\* the draw evaluated from framesPaired = pairMinFrames on
drawPerformedAtMin(ps, pk, index) ==
    /\ ps[index].partner # NoPartner
    /\ ps[index].partner <= Len(pk)
    /\ distanceSq(pk[index].currentPyramidCenter,
                  pk[ps[index].partner].currentPyramidCenter) # 0
    /\ ps[index].frames + 1 >= pairMinFrames

\* lines 1231-1239 and 1339: Math.random() < pairBreakProb is evaluated for
\* peak index: it has a partner, the partner peak exists and stands
\* elsewhere, and framesPaired, counted up by line 1232, exceeds pairMinFrames
drawPerformed(ps, pk, index) ==
    /\ ps[index].partner # NoPartner
    /\ ps[index].partner <= Len(pk)
    /\ distanceSq(pk[index].currentPyramidCenter,
                  pk[ps[index].partner].currentPyramidCenter) # 0
    /\ ps[index].frames + 1 > pairMinFrames

\* lines 1231-1341 on the pair states: frames++, the early returns and the
\* probabilistic break; draw is the outcome of Math.random() < pairBreakProb
applyPairingForces(ps, pk, index, draw) ==
    IF ps[index].partner = NoPartner THEN ps
    ELSE LET partner == ps[index].partner
             counted == [ps EXCEPT ![index].frames = @ + 1]
         IN  IF drawPerformed(ps, pk, index) /\ draw
               THEN breakPair(counted, index, partner)
               ELSE counted

\* line 1318: heading.lerp(tangent, pairHeadingSmoothing).normalize() moves
\* the heading object in place
smoothHeading(h) == h + 1

\* the heading smoothed while either member of the pair is processed
applyPairingDirectionsEither(dirs, ps, pk, index, h) ==
    LET grown == growTo(dirs, Len(pk), h)
        partner == ps[index].partner
    IN  IF partner = NoPartner \/ partner > Len(pk) THEN grown
        ELSE IF distanceSq(pk[index].currentPyramidCenter,
                           pk[partner].currentPyramidCenter) = 0
               THEN grown
        ELSE [grown EXCEPT ![Min(index, partner)] = smoothHeading(@)]

\* lines 1227-1229 and 1269-1318 on the pair directions: the array grows to
\* the population, and the lower-indexed member smooths the shared heading
applyPairingDirections(dirs, ps, pk, index, h) ==
    LET grown == growTo(dirs, Len(pk), h)
        partner == ps[index].partner
    IN  IF partner = NoPartner \/ partner > Len(pk) THEN grown
        ELSE IF distanceSq(pk[index].currentPyramidCenter,
                           pk[partner].currentPyramidCenter) = 0
               THEN grown
        ELSE IF index = Min(index, partner)
               THEN [grown EXCEPT ![index] = smoothHeading(@)]
        ELSE grown

Max(a, b) == IF a > b THEN a ELSE b

\* ----------------------------------------------- _applyRepulsionForces
\* lines 1172-1197: peak j adds a repulsion push to forceOffset of peak index
repulsionPushes(pk, index, j) ==
    /\ index # j
    /\ j <= Len(pk)
    /\ distanceSq(pk[index].currentPyramidCenter, pk[j].currentPyramidCenter) # 0
    /\ distanceSq(pk[index].currentPyramidCenter, pk[j].currentPyramidCenter)
          < Sq(minSeparation)

\* lines 1164-1197: the nearby peaks whose repulsion enters forceOffset
repulsionOf(pk, g, index) ==
    { j \in Range(getNearby(g, pk[index].currentPyramidCenter,
                            Max(minSeparation, complementaryRange))) :
        repulsionPushes(pk, index, j) }

\* lines 1231-1266: the pairing step adds its forces to forceOffset
pairingPushes(ps, pk, index) ==
    /\ ps[index].partner # NoPartner
    /\ ps[index].partner <= Len(pk)
    /\ distanceSq(pk[index].currentPyramidCenter,
                  pk[ps[index].partner].currentPyramidCenter) # 0

NoContrib == [ index |-> 0, repulsion |-> {}, pairing |-> FALSE, drew |-> FALSE ]

\* ------------------------------------------------- the per-peak loop
\* line 642: the peak is hidden by the category filter
invisible(filterActive, peak) == filterActive /\ ~peak.categoryVisible

\* the Save Mode test that never skips
movementStoppedNever(flag) == FALSE

\* lines 644-647: if (this.stopAllMovement) continue
movementStopped(flag) == flag

\* line 656: the peak approaches its target
softLocked(peak) == peak.evolvingTargetCenter # NoTarget /\ ~peak.evolvingLock

\* the interpolation step cut off toward zero
lerpStepTruncated(d) ==
    IF d >= 0 THEN (d * evolvingMoveSpeed) \div 100
    ELSE 0 - (((0 - d) * evolvingMoveSpeed) \div 100)

\* one component of Vector3.lerp(target, 0.12) on integers, rounded away
\* from zero, so that the approach ends as the snap of line 658 ends it
lerpStep(d) ==
    IF d >= 0 THEN (d * evolvingMoveSpeed + 99) \div 100
    ELSE 0 - (((0 - d) * evolvingMoveSpeed + 99) \div 100)

\* line 657: currentPyramidCenter.lerp(evolvingTargetCenter, evolvingMoveSpeed)
lerp(p, target) ==
    <<p[1] + lerpStep(target[1] - p[1]),
      p[2] + lerpStep(target[2] - p[2]),
      p[3] + lerpStep(target[3] - p[3])>>

\* lines 697-716: the vertical part of the velocity; the swarm target has
\* y = 0 and the forces are planar, so desiredVel.y = followLerp *
\* swirlWeight * (0 - y): a step toward the plane y = 0
verticalMove(y) == IF y > 0 THEN 0 - 1 ELSE IF y < 0 THEN 1 ELSE 0

\* the lock test with the evolving flag negated
lockedNegated(active, peak) == ~active /\ peak.evolvingLock

\* lines 650-653: the peak is locked in evolve mode
locked(active, peak) == active /\ peak.evolvingLock

\* ------------------------------------------------------ the population
\* repositionPeaks: only x is rewritten
repositionPeaks(pk) ==
    [i \in DOMAIN pk |->
        [pk[i] EXCEPT !.currentPyramidCenter =
            Vector3(layoutX(i, Len(pk)), Vy(pk[i].currentPyramidCenter),
                    Vz(pk[i].currentPyramidCenter))]]

RECURSIVE createPeaks(_, _)
createPeaks(pk, targetCount) ==
    IF Len(pk) >= targetCount THEN pk
    ELSE createPeaks(Append(pk, newPeak(Len(pk) + 1, targetCount)), targetCount)

\* adjustPeakCount(targetCount): createSinglePeak pushes, removeSinglePeak
\* splices from the end, repositionPeaks closes
adjustPeakCount(pk, targetCount) ==
    IF targetCount <= 0 THEN pk
    ELSE IF targetCount > Len(pk)
           THEN repositionPeaks(createPeaks(pk, targetCount))
    ELSE IF targetCount < Len(pk)
           THEN repositionPeaks(SubSeq(pk, 1, targetCount))
    ELSE repositionPeaks(pk)

\* --------------------------------------------------------------- Init
Init ==
    /\ peaks = [i \in 1..InitPeaks |-> newPeak(i, InitPeaks)]
    /\ peakSolids = << >>
    /\ pairStates = << >>
    /\ pairDirections = << >>
    /\ lastPositions = << >>
    /\ velocities = << >>
    /\ grid = EmptyGrid
    /\ frameCounter = 0
    /\ evolvingActive = FALSE
    /\ pc = "idle"
    /\ k = 0
    /\ calls = 0
    /\ ticks = 0
    /\ query = << >>
    /\ nearby = << >>
    /\ categoryFilterActive = FALSE
    /\ stopAllMovement = FALSE
    /\ contrib = NoContrib
    /\ desiredVel = Zero
    /\ gridCellSize = cellSize
    /\ lastBreak = << >>
    /\ preTick = << >>

\* ------------------------------------------------------- external calls
\* regenerateWithSolutions(solutions): solutions are the first n of list
RegenerateWithSolutions ==
    /\ pc = "idle"
    /\ calls < MaxCalls
    /\ count > 0
    /\ \E list \in CategoryLists, n \in 1..MaxPeaks :
          /\ peakSolids' = SubSeq(list, 1, n)
          /\ peaks' = IF n # count THEN adjustPeakCount(peaks, n) ELSE peaks
    /\ calls' = calls + 1
    /\ UNCHANGED <<pairStates, pairDirections, lastPositions, velocities, grid,
                   frameCounter, evolvingActive, pc, k, ticks, query, nearby,
                   categoryFilterActive, stopAllMovement, contrib, desiredVel, gridCellSize,
                   lastBreak, preTick>>

\* startEvolvingAlignmentInstant([{solid of peak i, target}])
StartEvolvingAlignmentInstant ==
    /\ pc = "idle"
    /\ calls < MaxCalls
    /\ \E i \in 1..count, t \in SnapTargets, h \in TargetHeights :
          LET target == Vector3(t[1], h, t[2])
          IN  /\ i <= Len(peakSolids)
              /\ peaks' = [peaks EXCEPT ![i] =
                             [@ EXCEPT !.currentPyramidCenter = target,
                                       !.evolvingLock = TRUE]]
              /\ lastPositions' =
                    [growTo(lastPositions, count, Zero) EXCEPT ![i] = target]
          /\ velocities' = [growTo(velocities, count, Zero) EXCEPT ![i] = Zero]
    /\ evolvingActive' = TRUE
    /\ calls' = calls + 1
    /\ UNCHANGED <<peakSolids, pairStates, pairDirections, grid, frameCounter,
                   pc, k, ticks, query, nearby,
                   categoryFilterActive, stopAllMovement, contrib, desiredVel, gridCellSize,
                   lastBreak, preTick>>

\* stopEvolvingAlignment()
StopEvolvingAlignment ==
    /\ pc = "idle"
    /\ calls < MaxCalls
    /\ evolvingActive' = FALSE
    /\ peaks' = [i \in DOMAIN peaks |->
                    [peaks[i] EXCEPT !.evolvingLock = FALSE,
                                     !.evolvingTargetCenter = NoTarget]]
    /\ calls' = calls + 1
    /\ UNCHANGED <<peakSolids, pairStates, pairDirections, lastPositions,
                   velocities, grid, frameCounter, pc, k, ticks, query, nearby,
                   categoryFilterActive, stopAllMovement, contrib, desiredVel, gridCellSize,
                   lastBreak, preTick>>

\* startEvolvingAlignment([{solid of peak i, target}]), the target taken
\* from the given planar targets and heights
startEvolvingAlignment(targets, heights) ==
    /\ pc = "idle"
    /\ calls < MaxCalls
    /\ \E i \in 1..count, t \in targets, h \in heights :
          /\ i <= Len(peakSolids)
          /\ peaks' = [peaks EXCEPT ![i] =
                         [@ EXCEPT !.evolvingTargetCenter = Vector3(t[1], h, t[2]),
                                   !.evolvingLock = FALSE]]
    /\ evolvingActive' = TRUE
    /\ calls' = calls + 1
    /\ UNCHANGED <<peakSolids, pairStates, pairDirections, lastPositions,
                   velocities, grid, frameCounter, pc, k, ticks, query, nearby,
                   categoryFilterActive, stopAllMovement, contrib, desiredVel, gridCellSize,
                   lastBreak, preTick>>

StartEvolvingAlignment == startEvolvingAlignment(SoftTargets, TargetHeights)

\* applyCategoryVisibilityBySolids(the solids of category c)
ApplyCategoryVisibilityBySolids ==
    /\ pc = "idle"
    /\ calls < MaxCalls
    /\ \E c \in FilterCategories :
          peaks' = [i \in DOMAIN peaks |->
                      [peaks[i] EXCEPT !.categoryVisible =
                          (i <= Len(peakSolids) /\ peakSolids[i] = c)]]
    /\ categoryFilterActive' = TRUE
    /\ calls' = calls + 1
    /\ UNCHANGED <<peakSolids, pairStates, pairDirections, lastPositions,
                   velocities, grid, frameCounter, evolvingActive, pc, k, ticks,
                   query, nearby, stopAllMovement, contrib, desiredVel, gridCellSize,
                   lastBreak, preTick>>

\* clearCategoryVisibility()
ClearCategoryVisibility ==
    /\ pc = "idle"
    /\ calls < MaxCalls
    /\ categoryFilterActive
    /\ peaks' = [i \in DOMAIN peaks |-> [peaks[i] EXCEPT !.categoryVisible = TRUE]]
    /\ categoryFilterActive' = FALSE
    /\ calls' = calls + 1
    /\ UNCHANGED <<peakSolids, pairStates, pairDirections, lastPositions,
                   velocities, grid, frameCounter, evolvingActive, pc, k, ticks,
                   query, nearby, stopAllMovement, contrib, desiredVel, gridCellSize,
                   lastBreak, preTick>>

\* the save mode freezes (SaveMode.js line 147) and releases (line 205)
\* the movement
SetStopAllMovement ==
    /\ pc = "idle"
    /\ calls < MaxCalls
    /\ stopAllMovement' = ~stopAllMovement
    /\ calls' = calls + 1
    /\ UNCHANGED <<peaks, peakSolids, pairStates, pairDirections, lastPositions,
                   velocities, grid, frameCounter, evolvingActive, pc, k, ticks,
                   query, nearby, categoryFilterActive, contrib, desiredVel, gridCellSize,
                   lastBreak, preTick>>

\* ------------------------------------------------------------ update()
\* line 598: the call executes a tick
tickDueAlways(counter) == TRUE

tickDue(counter) == counter % frameSkip = 0

\* lines 583-600: a call that the frame-skip divisor turns into a return;
\* behaviours are followed for maxTicks executed ticks
updateSkipped(maxTicks) ==
    /\ pc = "idle"
    /\ count > 0
    /\ ticks < maxTicks
    /\ ~tickDue(frameCounter + 1)
    /\ frameCounter' = (frameCounter + 1) % frameSkip
    /\ UNCHANGED <<peaks, peakSolids, pairStates, pairDirections, lastPositions,
                   velocities, grid, evolvingActive, pc, k, calls, ticks,
                   query, nearby,
                   categoryFilterActive, stopAllMovement, contrib, desiredVel, gridCellSize,
                   lastBreak, preTick>>

UpdateSkipped == updateSkipped(MaxTicks)

\* lines 583-622: an executed tick begins with the resize of the arrays
updateResize(maxTicks) ==
    /\ pc = "idle"
    /\ count > 0
    /\ ticks < maxTicks
    /\ tickDue(frameCounter + 1)
    /\ frameCounter' = (frameCounter + 1) % frameSkip
    /\ pairStates' = growTo(pairStates, count, DefaultPairState)
    /\ lastPositions' = growTo(lastPositions, count, Zero)
    /\ velocities' = growTo(velocities, count, Zero)
    /\ ticks' = ticks + 1
    /\ lastBreak' = growTo(lastBreak, count, NoBreak)
    /\ preTick' = [i \in 1..count |-> peaks[i].currentPyramidCenter]
    /\ pc' = "decay"
    /\ UNCHANGED <<peaks, peakSolids, pairDirections, grid, evolvingActive, k,
                   calls, query, nearby,
                   categoryFilterActive, stopAllMovement, contrib, desiredVel, gridCellSize>>

UpdateResize == updateResize(MaxTicks)

\* _findPairs, lines 1047-1064: timers count down, the grid is rebuilt
FindPairsDecay ==
    /\ pc = "decay"
    /\ pairStates' = decayAll(pairStates)
    /\ grid' = rebuildGrid(peaks)
    /\ pc' = "break"
    /\ UNCHANGED <<peaks, peakSolids, pairDirections, lastPositions, velocities,
                   frameCounter, evolvingActive, k, calls, ticks, query, nearby,
                   categoryFilterActive, stopAllMovement, contrib, desiredVel, gridCellSize,
                   lastBreak, preTick>>

\* _findPairs, lines 1066-1096: the distance-based break check
FindPairsBreak ==
    /\ pc = "break"
    /\ pairStates' = breakLoop(pairStates, peaks, 1)
    /\ lastBreak' = noteBreaks(lastBreak, pairStates, pairStates', ticks, "distance")
    /\ pc' = "form"
    /\ UNCHANGED <<peaks, peakSolids, pairDirections, lastPositions, velocities,
                   grid, frameCounter, evolvingActive, k, calls, ticks, query, nearby,
                   categoryFilterActive, stopAllMovement, contrib, desiredVel, gridCellSize,
                   preTick>>

\* _findPairs, lines 1098-1153: the formation pass
FindPairsForm ==
    /\ pc = "form"
    /\ \E h \in Headings :
          LET formed == formLoop(pairStates, pairDirections, peaks, peakSolids,
                                 grid, h, 1)
          IN  /\ pairStates' = formed[1]
              /\ pairDirections' = formed[2]
    /\ lastBreak' = noteForms(lastBreak, pairStates, pairStates', ticks)
    /\ pc' = "force"
    /\ k' = 1
    /\ UNCHANGED <<peaks, peakSolids, lastPositions, velocities, grid,
                   frameCounter, evolvingActive, calls, ticks, query, nearby,
                   categoryFilterActive, stopAllMovement, contrib, desiredVel, gridCellSize,
                   preTick>>

\* lines 639-642: peak k is hidden by the category filter and skipped
ForceSkipInvisible ==
    /\ pc = "force"
    /\ k <= count
    /\ invisible(categoryFilterActive, peaks[k])
    /\ k' = k + 1
    /\ UNCHANGED <<peaks, peakSolids, pairStates, pairDirections, lastPositions,
                   velocities, grid, frameCounter, evolvingActive, pc, calls,
                   ticks, query, nearby,
                   categoryFilterActive, stopAllMovement, contrib, desiredVel, gridCellSize,
                   lastBreak, preTick>>

\* lines 644-647: all movement is stopped, peak k is skipped
ForceSkipStopped ==
    /\ pc = "force"
    /\ k <= count
    /\ ~invisible(categoryFilterActive, peaks[k])
    /\ movementStopped(stopAllMovement)
    /\ k' = k + 1
    /\ UNCHANGED <<peaks, peakSolids, pairStates, pairDirections, lastPositions,
                   velocities, grid, frameCounter, evolvingActive, pc, calls,
                   ticks, query, nearby,
                   categoryFilterActive, stopAllMovement, contrib, desiredVel, gridCellSize,
                   lastBreak, preTick>>

\* lines 649-653: peak k is locked in evolve mode and skipped
ForceSkipLocked ==
    /\ pc = "force"
    /\ k <= count
    /\ ~invisible(categoryFilterActive, peaks[k])
    /\ ~movementStopped(stopAllMovement)
    /\ locked(evolvingActive, peaks[k])
    /\ k' = k + 1
    /\ UNCHANGED <<peaks, peakSolids, pairStates, pairDirections, lastPositions,
                   velocities, grid, frameCounter, evolvingActive, pc, calls,
                   ticks, query, nearby,
                   categoryFilterActive, stopAllMovement, contrib, desiredVel, gridCellSize,
                   lastBreak, preTick>>

\* lines 655-663: peak k approaches its target and latches on arrival
ForceSoftLock ==
    /\ pc = "force"
    /\ k <= count
    /\ ~invisible(categoryFilterActive, peaks[k])
    /\ ~movementStopped(stopAllMovement)
    /\ ~locked(evolvingActive, peaks[k])
    /\ softLocked(peaks[k])
    /\ LET target == peaks[k].evolvingTargetCenter
           moved == lerp(peaks[k].currentPyramidCenter, target)
       IN  peaks' = [peaks EXCEPT ![k] =
                       [@ EXCEPT !.currentPyramidCenter = moved,
                                 !.evolvingLock = (moved = target)]]
    /\ k' = k + 1
    /\ UNCHANGED <<peakSolids, pairStates, pairDirections, lastPositions,
                   velocities, grid, frameCounter, evolvingActive, pc, calls,
                   ticks, query, nearby,
                   categoryFilterActive, stopAllMovement, contrib, desiredVel, gridCellSize,
                   lastBreak, preTick>>

\* lines 665-717: forces and integration of peak k
ForceIntegrate ==
    /\ pc = "force"
    /\ k <= count
    /\ ~invisible(categoryFilterActive, peaks[k])
    /\ ~movementStopped(stopAllMovement)
    /\ ~locked(evolvingActive, peaks[k])
    /\ ~softLocked(peaks[k])
    /\ \E draw \in BOOLEAN, h \in Headings, m \in Moves :
          LET v == Vector3(m[1], verticalMove(Vy(peaks[k].currentPyramidCenter)),
                           m[2])
              breakThisFrame ==
                  /\ pairStates[k].partner # NoPartner
                  /\ pairStates'[k].partner = NoPartner
          IN  /\ pairStates' = applyPairingForces(pairStates, peaks, k, draw)
              /\ lastBreak' = noteBreaks(lastBreak, pairStates, pairStates', ticks, "draw")
              /\ pairDirections' =
                    applyPairingDirections(pairDirections, pairStates, peaks, k, h)
              /\ contrib' =
                    [ index |-> k,
                      repulsion |-> IF breakThisFrame THEN {}
                                    ELSE repulsionOf(peaks, grid, k),
                      pairing |-> pairingPushes(pairStates, peaks, k),
                      drew |-> drawPerformed(pairStates, peaks, k) ]
              /\ velocities' = [velocities EXCEPT ![k] = v]
              /\ peaks' = [peaks EXCEPT ![k].currentPyramidCenter = add(@, v)]
    /\ k' = k + 1
    /\ UNCHANGED <<peakSolids, lastPositions, grid, frameCounter,
                   evolvingActive, pc, calls, ticks, query, nearby,
                   categoryFilterActive, stopAllMovement, desiredVel, gridCellSize,
                   preTick>>

\* lines 719-725: the positions are recorded as last positions; every peak
\* has now been through a tick
RecordLastPositions ==
    /\ pc = "force"
    /\ k > count
    /\ lastPositions' = [i \in DOMAIN lastPositions |->
                            IF i <= count THEN peaks[i].currentPyramidCenter
                            ELSE lastPositions[i]]
    /\ peaks' = [i \in DOMAIN peaks |-> [peaks[i] EXCEPT !.ticked = TRUE]]
    /\ contrib' = NoContrib
    /\ preTick' = << >>
    /\ pc' = "idle"
    /\ k' = 0
    /\ UNCHANGED <<peakSolids, pairStates, pairDirections, velocities,
                   grid, frameCounter, evolvingActive, calls, ticks, query,
                   nearby, categoryFilterActive, stopAllMovement, desiredVel, gridCellSize,
                   lastBreak>>

Next ==
    \/ RegenerateWithSolutions
    \/ StartEvolvingAlignmentInstant
    \/ StartEvolvingAlignment
    \/ StopEvolvingAlignment
    \/ ApplyCategoryVisibilityBySolids
    \/ ClearCategoryVisibility
    \/ SetStopAllMovement
    \/ UpdateSkipped
    \/ UpdateResize
    \/ FindPairsDecay
    \/ FindPairsBreak
    \/ FindPairsForm
    \/ ForceSkipInvisible
    \/ ForceSkipStopped
    \/ ForceSkipLocked
    \/ ForceSoftLock
    \/ ForceIntegrate
    \/ RecordLastPositions

Spec == Init /\ [][Next]_vars

\* ------------------------------------------------- long specification
\* the same engine followed for more ticks after fewer external calls, for
\* the timers of the pair state machine
ExternalCall ==
    \/ RegenerateWithSolutions
    \/ StartEvolvingAlignmentInstant
    \/ StartEvolvingAlignment
    \/ StopEvolvingAlignment
    \/ ApplyCategoryVisibilityBySolids
    \/ ClearCategoryVisibility
    \/ SetStopAllMovement

LongCall == calls < LongCalls /\ ExternalCall

LongUpdateSkipped == updateSkipped(LongTicks)

LongUpdateResize == updateResize(LongTicks)

LongNext ==
    \/ LongCall
    \/ LongUpdateSkipped
    \/ LongUpdateResize
    \/ FindPairsDecay
    \/ FindPairsBreak
    \/ FindPairsForm
    \/ ForceSkipInvisible
    \/ ForceSkipStopped
    \/ ForceSkipLocked
    \/ ForceSoftLock
    \/ ForceIntegrate
    \/ RecordLastPositions

SpecLong == Init /\ [][LongNext]_vars

\* ------------------------------------------ soft-lock specification
\* behaviours in which peaks are given near and far soft-lock targets:
\* SoftCalls external calls, SoftTicks executed ticks
WideStartEvolvingAlignment == startEvolvingAlignment(WideTargets, WideHeights)

SoftCall ==
    /\ calls < SoftCalls
    /\ \/ RegenerateWithSolutions
       \/ StartEvolvingAlignmentInstant
       \/ WideStartEvolvingAlignment
       \/ ApplyCategoryVisibilityBySolids
       \/ SetStopAllMovement

SoftUpdateSkipped == updateSkipped(SoftTicks)

SoftUpdateResize == updateResize(SoftTicks)

SoftNext ==
    \/ SoftCall
    \/ SoftUpdateSkipped
    \/ SoftUpdateResize
    \/ FindPairsDecay
    \/ FindPairsBreak
    \/ FindPairsForm
    \/ ForceSkipInvisible
    \/ ForceSkipStopped
    \/ ForceSkipLocked
    \/ ForceSoftLock
    \/ ForceIntegrate
    \/ RecordLastPositions

SpecSoft == Init /\ [][SoftNext]_vars


\* ------------------------------------------------- grid specification
\* the grid on its own: peaks at chosen points are inserted one by one into
\* a cleared grid, and getNearby is asked for chosen points and radii
GridCoords == { 0 - cellSize - 1, 0 - cellSize, 0 - 1, 0, cellSize - 1, cellSize }
GridPoints == { Vector3(x, 0, z) : x \in GridCoords, z \in { 0 - 1, cellSize } }
GridQueryPoints == { Vector3(x, 0, z) : x \in GridCoords, z \in { 0, cellSize } }
GridRadii == { 0, 1, cellSize, cellSize + 1 }

peakAt(p) ==
    [ currentPyramidCenter |-> p, categoryVisible |-> TRUE,
      evolvingLock |-> FALSE, evolvingTargetCenter |-> NoTarget,
      ticked |-> FALSE ]

GridInit ==
    /\ \E n \in 1..GridPeaks : peaks \in [1..n -> { peakAt(p) : p \in GridPoints }]
    /\ peakSolids = << >>
    /\ pairStates = << >>
    /\ pairDirections = << >>
    /\ lastPositions = << >>
    /\ velocities = << >>
    /\ grid = EmptyGrid
    /\ frameCounter = 0
    /\ evolvingActive = FALSE
    /\ pc = "grid"
    /\ k = 1
    /\ calls = 0
    /\ ticks = 0
    /\ query = << >>
    /\ nearby = << >>
    /\ categoryFilterActive = FALSE
    /\ stopAllMovement = FALSE
    /\ contrib = NoContrib
    /\ desiredVel = Zero
    /\ gridCellSize = cellSize
    /\ lastBreak = << >>
    /\ preTick = << >>

\* spatialGrid.clear()
GridClear ==
    /\ pc = "grid"
    /\ grid' = EmptyGrid
    /\ k' = 1
    /\ query' = << >>
    /\ nearby' = << >>
    /\ UNCHANGED engineVarsButK

\* spatialGrid.insert(k, peaks[k].currentPyramidCenter)
GridInsert ==
    /\ pc = "grid"
    /\ k <= count
    /\ grid' = insert(grid, k, peaks[k].currentPyramidCenter)
    /\ k' = k + 1
    /\ query' = << >>
    /\ nearby' = << >>
    /\ UNCHANGED engineVarsButK

\* spatialGrid.getNearby(q, r)
GridGetNearby ==
    /\ pc = "grid"
    /\ \E q \in GridQueryPoints, r \in GridRadii :
          /\ query' = <<q, r>>
          /\ nearby' = getNearby(grid, q, r)
    /\ UNCHANGED <<grid, k>>
    /\ UNCHANGED engineVarsButK

GridNext == GridClear \/ GridInsert \/ GridGetNearby

SpecGrid == GridInit /\ [][GridNext]_vars

\* --------------------------------------------- velocity specification
\* lines 693-716 on their own, in fixed-point arithmetic: every length of
\* this specification is in hundredths of a unit.  One peak with a stored
\* velocity is integrated toward a desired velocity; the inputs are those
\* on which the arithmetic is exact.
maxVelocity == 150     \* maxVelocity: 1.5

lengthSq(v) == Sq(v[1]) + Sq(v[2]) + Sq(v[3])

\* Vector3.length() where it is a whole number of hundredths
length(v) == CHOOSE n \in 0..2000 : n * n = lengthSq(v)

\* line 708: velocity.lerp(desiredVel, 0.3)
blendVelocity(v, d) ==
    <<v[1] + ((d[1] - v[1]) * 3) \div 10,
      v[2] + ((d[2] - v[2]) * 3) \div 10,
      v[3] + ((d[3] - v[3]) * 3) \div 10>>

\* the velocity left as blended
limitVelocityNever(v) == v

\* lines 711-713: if (velocity.length() > maxVelocity) setLength(maxVelocity)
limitVelocity(v) ==
    IF lengthSq(v) > Sq(maxVelocity)
      THEN <<(v[1] * maxVelocity) \div length(v),
             (v[2] * maxVelocity) \div length(v),
             (v[3] * maxVelocity) \div length(v)>>
      ELSE v

\* the blend and the clamp lose nothing to rounding
exact(v, d) ==
    LET b == blendVelocity(v, d)
    IN  /\ \A c \in 1..3 : ((d[c] - v[c]) * 3) % 10 = 0
        /\ \E n \in 0..2000 : n * n = lengthSq(b)
        /\ lengthSq(b) > Sq(maxVelocity) =>
              \A c \in 1..3 : (b[c] * maxVelocity) % length(b) = 0

StoredVelocities ==
    { Vector3(0, 0, 0), Vector3(0, 0, 100), Vector3(150, 0, 0),
      Vector3(90, 0, 120), Vector3(0, 0, 0 - 100), Vector3(0 - 120, 0, 90) }

DesiredVelocities ==
    { Vector3(0, 0, 0), Vector3(0, 0, 200), Vector3(0, 0, 1000),
      Vector3(180, 0, 240), Vector3(300, 0, 400), Vector3(0 - 500, 0, 0),
      Vector3(1000, 0, 0), Vector3(0, 0 - 600, 0), Vector3(0, 20, 0),
      Vector3(0 - 400, 0, 300) }

StartPositions == { Vector3(0, 0, 0), Vector3(0 - 3000, 0, 0), Vector3(0, 800, 1000) }

VelocityInit ==
    /\ \E p \in StartPositions, v \in StoredVelocities :
          /\ peaks = <<peakAt(p)>>
          /\ lastPositions = <<p>>
          /\ velocities = <<v>>
    /\ peakSolids = << >>
    /\ pairStates = <<DefaultPairState>>
    /\ pairDirections = << >>
    /\ grid = EmptyGrid
    /\ frameCounter = 0
    /\ evolvingActive = FALSE
    /\ pc = "integrate"
    /\ k = 1
    /\ calls = 0
    /\ ticks = 0
    /\ query = << >>
    /\ nearby = << >>
    /\ categoryFilterActive = FALSE
    /\ stopAllMovement = FALSE
    /\ contrib = NoContrib
    /\ desiredVel = Zero
    /\ gridCellSize = cellSize
    /\ lastBreak = << >>
    /\ preTick = << >>

\* lines 693-716: blend, limit, apply
VelocityIntegrate ==
    /\ pc = "integrate"
    /\ ticks < MaxTicks
    /\ \E d \in DesiredVelocities :
          /\ exact(velocities[1], d)
          /\ desiredVel' = d
          /\ velocities' = <<limitVelocity(blendVelocity(velocities[1], d))>>
          /\ peaks' = [peaks EXCEPT ![1].currentPyramidCenter =
                         add(@, velocities'[1])]
    /\ pc' = "moved"
    /\ ticks' = ticks + 1
    /\ UNCHANGED <<peakSolids, pairStates, pairDirections, lastPositions, grid,
                   frameCounter, evolvingActive, k, calls, query, nearby,
                   categoryFilterActive, stopAllMovement, contrib,
                   gridCellSize,
                   lastBreak, preTick>>

\* lines 719-725: the position is recorded as last position
VelocityRecord ==
    /\ pc = "moved"
    /\ lastPositions' = <<peaks[1].currentPyramidCenter>>
    /\ pc' = "integrate"
    /\ UNCHANGED <<peaks, peakSolids, pairStates, pairDirections, velocities,
                   grid, frameCounter, evolvingActive, k, calls, ticks, query,
                   nearby, categoryFilterActive, stopAllMovement, contrib,
                   desiredVel, gridCellSize,
                   lastBreak, preTick>>

VelocityNext == VelocityIntegrate \/ VelocityRecord

SpecVelocity == VelocityInit /\ [][VelocityNext]_vars

\* ----------------------------------------- construction specification
\* new SpatialGrid(size) for any number size, followed by the inserts of a
\* grid rebuild; the constructor stores what it is given
CellSizes == { 0 - cellSize, 0, 1, cellSize }

NoCellSize == "undefined"

\* Math.floor(v / size) as JavaScript computes it: a division by zero gives
\* an infinity or NaN, no error
cellCoordOf(size, v) ==
    IF size > 0 THEN v \div size
    ELSE IF size < 0 THEN (0 - v) \div (0 - size)
    ELSE IF v > 0 THEN "Infinity"
    ELSE IF v < 0 THEN "-Infinity"
    ELSE "NaN"

\* _hash(x, z) of a grid of cell size `size`
hashOf(size, x, z) == <<cellCoordOf(size, x), cellCoordOf(size, z)>>

\* insert(index, position) of a grid of cell size `size`
insertOf(size, g, index, position) ==
    LET key == hashOf(size, Vx(position), Vz(position))
    IN  IF key \in DOMAIN g
          THEN [g EXCEPT ![key] = Append(@, index)]
          ELSE g @@ (key :> <<index>>)

ConstructInit ==
    /\ \E n \in 1..GridPeaks : peaks \in [1..n -> { peakAt(p) : p \in GridPoints }]
    /\ peakSolids = << >>
    /\ pairStates = << >>
    /\ pairDirections = << >>
    /\ lastPositions = << >>
    /\ velocities = << >>
    /\ grid = EmptyGrid
    /\ frameCounter = 0
    /\ evolvingActive = FALSE
    /\ pc = "new"
    /\ k = 1
    /\ calls = 0
    /\ ticks = 0
    /\ query = << >>
    /\ nearby = << >>
    /\ categoryFilterActive = FALSE
    /\ stopAllMovement = FALSE
    /\ contrib = NoContrib
    /\ desiredVel = Zero
    /\ gridCellSize = NoCellSize
    /\ lastBreak = << >>
    /\ preTick = << >>

\* part_002 lines 4-7: constructor(cellSize)
NewSpatialGrid ==
    /\ pc = "new"
    /\ \E size \in CellSizes : gridCellSize' = size
    /\ grid' = EmptyGrid
    /\ pc' = "constructed"
    /\ UNCHANGED <<peaks, peakSolids, pairStates, pairDirections, lastPositions,
                   velocities, frameCounter, evolvingActive, k, calls, ticks,
                   query, nearby, categoryFilterActive, stopAllMovement,
                   contrib, desiredVel, lastBreak, preTick>>

\* _findPairs lines 1059-1064 on the constructed grid: insert of peak k
ConstructedInsert ==
    /\ pc = "constructed"
    /\ k <= count
    /\ grid' = insertOf(gridCellSize, grid, k, peaks[k].currentPyramidCenter)
    /\ k' = k + 1
    /\ UNCHANGED <<peaks, peakSolids, pairStates, pairDirections, lastPositions,
                   velocities, frameCounter, evolvingActive, pc, calls, ticks,
                   query, nearby, categoryFilterActive, stopAllMovement,
                   contrib, desiredVel, gridCellSize,
                   lastBreak, preTick>>

ConstructNext == NewSpatialGrid \/ ConstructedInsert

SpecConstruct == ConstructInit /\ [][ConstructNext]_vars

\* ================================================================ claims
PairIndices == DOMAIN pairStates

\* peak i and peak j are partners of each other
paired(i, j) ==
    /\ i \in PairIndices /\ j \in PairIndices
    /\ pairStates[i].partner = j
    /\ pairStates[j].partner = i

positionOf(i) == peaks[i].currentPyramidCenter

\* a step of update() between the formation pass and the per-peak loop
FormationStep == pc = "form" /\ pc' = "force"
\* the distance-based break check
BreakCheckStep == pc = "break" /\ pc' = "form"
\* the state the formation pass leaves
AfterFormation == pc = "force" /\ k = 1

\* C1: pairing links are mutual in every state: if pair state i has
\* partner j, then pair state j exists and has partner i, also across
\* distance breaks, formations and breaks drawn inside the per-peak loop.
C1_PairingSymmetry ==
    \A i \in PairIndices :
        pairStates[i].partner # NoPartner =>
            /\ pairStates[i].partner \in PairIndices
            /\ pairStates[pairStates[i].partner].partner = i

\* a pair was broken inside the per-peak loop by its higher-indexed member:
\* the lower-indexed member is locked, so it never drew, and the two are too
\* close for the distance check to have broken them
C1_Witness ==
    /\ pc = "force"
    /\ \E i \in 1..count, j \in 1..count :
          /\ i < j /\ k = j + 1
          /\ evolvingActive /\ peaks[i].evolvingLock /\ ~peaks[j].evolvingLock
          /\ pairStates[i].partner = NoPartner
          /\ pairStates[j].partner = NoPartner
          /\ pairStates[i].breakPartner = j
          /\ pairStates[j].breakPartner = i
          /\ pairStates[i].cooldown = pairCooldown
          /\ pairStates[j].cooldown = pairCooldown
          /\ distanceSq(positionOf(i), positionOf(j)) <= Sq(pairFormRadius)

\* C2: the formation pass never links a peak whose cooldown is still
\* positive after the decrement of that tick, neither as the searching
\* peak nor as the candidate of another peak.
C2_CooldownExclusion ==
    [][FormationStep =>
        \A i \in PairIndices :
            pairStates[i].cooldown > 0 =>
                pairStates'[i].partner = pairStates[i].partner]_vars

\* after a formation pass an eligible searching peak j stands within the
\* formation radius of a complementary, unpaired peak i that is cooling
\* down, and the two were not linked
C2_Witness ==
    /\ AfterFormation
    /\ \E i \in 1..count, j \in 1..count :
          /\ i # j
          /\ pairStates[i].cooldown > 0
          /\ pairStates[i].partner = NoPartner
          /\ pairStates[j].cooldown = 0
          /\ pairStates[j].partner = NoPartner
          /\ categoryOf(peakSolids, i) \in Categories
          /\ categoryOf(peakSolids, j) \in Categories
          /\ \/ categoryOf(peakSolids, i) = "mid"
             \/ categoryOf(peakSolids, j) = "mid"
          /\ categoryOf(peakSolids, i) # categoryOf(peakSolids, j)
          /\ distanceSq(positionOf(i), positionOf(j)) <= Sq(pairFormRadius)

\* the four directed entries of the fixed lookup, written out
lookupEntry(a, b) ==
    \/ a = "low" /\ b = "mid"
    \/ a = "high" /\ b = "mid"
    \/ a = "mid" /\ b = "rhythmic"
    \/ a = "rhythmic" /\ b = "mid"

\* C3: every pair the formation pass creates links two peaks that both have
\* a category, complementary in at least one direction of the lookup; the
\* two categories differ and exactly one of them is 'mid'.
C3_CategoryEligibility ==
    [][FormationStep =>
        \A i \in PairIndices :
            (pairStates[i].partner = NoPartner /\ pairStates'[i].partner # NoPartner) =>
                LET j == pairStates'[i].partner
                    a == categoryOf(peakSolids, i)
                    b == categoryOf(peakSolids, j)
                IN  /\ a \in Categories
                    /\ b \in Categories
                    /\ lookupEntry(a, b) \/ lookupEntry(b, a)
                    /\ a # b
                    /\ (a = "mid") # (b = "mid")]_vars

\* the formation pass of the first tick has linked two peaks
C3_Witness ==
    /\ AfterFormation
    /\ ticks = 1
    /\ \E i \in 1..count, j \in 1..count : i # j /\ paired(i, j)

\* C4: no pair state ever names its own index as partner.
C4_NoSelfPairing ==
    \A i \in PairIndices : pairStates[i].partner # i

\* a peak holds a partner link, and the link names another peak
C4_Witness ==
    /\ AfterFormation
    /\ \E i \in 1..count :
          /\ pairStates[i].partner # NoPartner
          /\ pairStates[i].frames = 0
          /\ pairStates[pairStates[i].partner].partner = i

\* C5: no step of an executed tick moves a peak that is locked (evolving
\* mode active and the lock flag set), and the peak stays locked to the end
\* of the tick; so a peak locked at tick start ends the tick where it was.
C5_LockedInvariance ==
    [][(pc # "idle" \/ pc' # "idle") =>
        \A i \in 1..count :
            (evolvingActive /\ peaks[i].evolvingLock) =>
                /\ i <= Len(peaks')
                /\ peaks'[i].currentPyramidCenter = peaks[i].currentPyramidCenter
                /\ evolvingActive' /\ peaks'[i].evolvingLock]_vars

\* at the end of the per-peak loop a locked peak is paired with an unlocked
\* peak that moved in this tick
C5_Witness ==
    /\ pc = "force" /\ k > count
    /\ \E i \in 1..count, j \in 1..count :
          /\ paired(i, j)
          /\ evolvingActive /\ peaks[i].evolvingLock /\ ~peaks[j].evolvingLock
          /\ velocities[j] # Zero


\* C6: after clear() and insert(i, p_i), getNearby(q, r) returns every
\* inserted peak whose planar distance to q is at most r, for query points
\* with negative coordinates and on cell boundaries and every radius r >= 0.
C6_GridQuerySuperset ==
    query # << >> =>
        \A i \in 1..(k - 1) :
            distanceSq(positionOf(i), query[1]) <= Sq(query[2]) =>
                i \in Range(nearby)

\* a query returned a peak that lies at exactly the radius, at a negative
\* coordinate and in another cell than the query point
C6_Witness ==
    /\ query # << >>
    /\ \E i \in 1..(k - 1) :
          /\ query[2] > 0
          /\ distanceSq(positionOf(i), query[1]) = Sq(query[2])
          /\ Vx(positionOf(i)) < 0
          /\ hash(Vx(positionOf(i)), Vz(positionOf(i)))
                # hash(Vx(query[1]), Vz(query[1]))
          /\ i \in Range(nearby)

\* what a break leaves on a member whose partner was `other`
brokenFrom(st, other) ==
    /\ st.partner = NoPartner
    /\ st.frames = 0
    /\ st.cooldown = pairCooldown
    /\ st.breakGrace = breakGraceFrames
    /\ st.breakPartner = other

\* C7: the break check breaks every pair of peaks farther apart than the
\* keep radius, leaving on both members partner none, framesPaired 0,
\* cooldown pairCooldown, breakGrace breakGraceFrames and breakPartner the
\* other member; a pair at most the keep radius apart stays paired.
C7_DistanceBreak ==
    [][BreakCheckStep =>
        \A i \in 1..count, j \in 1..count :
            paired(i, j) =>
                IF distanceSq(positionOf(i), positionOf(j)) > Sq(pairKeepRadius)
                  THEN /\ brokenFrom(pairStates'[i], j)
                       /\ brokenFrom(pairStates'[j], i)
                  ELSE /\ pairStates'[i].partner = j
                       /\ pairStates'[j].partner = i]_vars

\* the break check has just broken a pair whose members are farther apart
\* than the keep radius
C7_Witness ==
    /\ pc = "form"
    /\ \E i \in 1..count, j \in 1..count :
          /\ i # j
          /\ brokenFrom(pairStates[i], j)
          /\ brokenFrom(pairStates[j], i)
          /\ distanceSq(positionOf(i), positionOf(j)) > Sq(pairKeepRadius)

\* peak i may enter a new pair: unpaired, cooldown 0, visible, with category
eligible(i) ==
    /\ pairStates[i].partner = NoPartner
    /\ pairStates[i].cooldown = 0
    /\ peaks[i].categoryVisible
    /\ categoryOf(peakSolids, i) \in Categories

withinFormRadius(i, j) ==
    distanceSq(positionOf(i), positionOf(j)) <= Sq(pairFormRadius)

withinKeepRadius(i, j) ==
    distanceSq(positionOf(i), positionOf(j)) <= Sq(pairKeepRadius)

\* peak i is unpaired, out of cooldown and has a category
readyToPair(i) ==
    /\ pairStates[i].partner = NoPartner
    /\ pairStates[i].cooldown = 0
    /\ categoryOf(peakSolids, i) # NoCategory

complementaryCategories(i, j) ==
    \/ lookupEntry(categoryOf(peakSolids, i), categoryOf(peakSolids, j))
    \/ lookupEntry(categoryOf(peakSolids, j), categoryOf(peakSolids, i))

\* another peak that could be chosen by, or choose, peak i
otherCandidate(i, j) ==
    \E m \in 1..count :
        /\ m # i /\ m # j
        /\ eligible(m)
        /\ complementaryCategories(i, m)
        /\ withinFormRadius(i, m)

C8_Witness ==
    /\ AfterFormation
    /\ ticks = 1
    /\ count = 3
    /\ \E i \in 1..count, j \in 1..count :
          /\ i # j
          /\ paired(i, j)
          /\ pairStates[i].frames = 0 /\ pairStates[j].frames = 0
          /\ withinFormRadius(i, j)

\* C9: once the resize step of a tick has run, no remaining peak has a
\* partner index beyond the population: a peak that was paired with a
\* removed peak has partner none.
C9_NoDanglingPartner ==
    pc \in {"decay", "break", "form", "force"} =>
        \A i \in 1..count :
            pairStates[i].partner # NoPartner => pairStates[i].partner <= count

\* the per-peak loop has run _applyPairingForces for peak k - 1
pairingForcesRan ==
    /\ pc = "force"
    /\ k > 1
    /\ ~(evolvingActive /\ peaks[k - 1].evolvingLock)

\* C10: while _findPairs and the per-peak loop of a tick run, the pair
\* states, velocities and last positions have exactly one entry per peak,
\* and so have the pair directions once _applyPairingForces has run.
C10_ArraySizing ==
    /\ pc \in {"decay", "break", "form", "force"} =>
          /\ Len(pairStates) = count
          /\ Len(velocities) = count
          /\ Len(lastPositions) = count
    /\ pairingForcesRan => Len(pairDirections) = count

\* C11: a peak created by a growth of the population enters its first tick
\* (the state right after the resize of the arrays) with the default pair
\* state and zero velocity, also when its index was used before by a peak
\* that has been removed.
C11_NewAgentsDefault ==
    pc = "decay" =>
        \A i \in 1..count :
            ~peaks[i].ticked =>
                /\ pairStates[i] = DefaultPairState
                /\ velocities[i] = Zero

\* C12: at the end of an executed tick the stored velocity of the peak that
\* was integrated has magnitude at most maxVelocity, and the peak stands at
\* most maxVelocity from where it stood when the tick began.
C12_VelocityBound ==
    pc = "moved" =>
        /\ lengthSq(velocities[1]) <= Sq(maxVelocity)
        /\ distanceSq(peaks[1].currentPyramidCenter, lastPositions[1])
              <= Sq(maxVelocity)

\* the desired velocity was so long that the blend exceeded maxVelocity
\* whatever the stored velocity was (0.3 |d| - 0.7 maxVelocity > maxVelocity),
\* and the peak moved by exactly maxVelocity
C12_Witness ==
    /\ pc = "moved"
    /\ 9 * lengthSq(desiredVel) > 289 * Sq(maxVelocity)
    /\ lengthSq(velocities[1]) = Sq(maxVelocity)
    /\ distanceSq(peaks[1].currentPyramidCenter, lastPositions[1])
          = Sq(maxVelocity)

\* C13: the formation pass never links a peak that the active category
\* filter hides, neither as the searching peak nor as the candidate.
C13_InvisibleExcluded ==
    [][FormationStep =>
        \A i \in 1..count :
            (categoryFilterActive /\ ~peaks[i].categoryVisible) =>
                pairStates'[i].partner = pairStates[i].partner]_vars

\* C14: in every state every pair state with partner none has framesPaired
\* 0, and whenever the partner of a pair state changes from none to a peak
\* (a pair forms) or from a peak to none (a pair breaks, by distance or by
\* the draw) framesPaired is 0 afterwards on both members.
C14_FramesPairedReset ==
    [][ /\ \A i \in DOMAIN pairStates' :
              pairStates'[i].partner = NoPartner => pairStates'[i].frames = 0
        /\ \A i \in DOMAIN pairStates :
              (pairStates[i].partner = NoPartner) # (pairStates'[i].partner = NoPartner) =>
                  LET other == IF pairStates[i].partner = NoPartner
                                 THEN pairStates'[i].partner
                                 ELSE pairStates[i].partner
                  IN  /\ pairStates'[i].frames = 0
                      /\ other \in DOMAIN pairStates' =>
                            pairStates'[other].frames = 0 ]_vars

\* a pair that lasted two ticks has just been broken by the draw of one of
\* its members: both are unpaired with the full break grace, still within
\* the formation radius of each other, and both count 0 frames
C14_Witness ==
    /\ pc = "force"
    /\ ticks >= 2
    /\ contrib.index # 0
    /\ \E j \in 1..count :
          /\ j # contrib.index
          /\ brokenFrom(pairStates[contrib.index], j)
          /\ brokenFrom(pairStates[j], contrib.index)
          /\ withinFormRadius(contrib.index, j)

\* C15: framesPaired counts the ticks of a pair on both members alike: at
\* the end of the per-peak loop of every executed tick the two members of
\* every pair hold the same framesPaired, whether or not a member is locked,
\* hidden, approaching a target or frozen by the stop of all movement.
C15_FramesPairedCounts ==
    (pc = "force" /\ k > count) =>
        \A i \in 1..count, j \in 1..count :
            paired(i, j) => pairStates[i].frames = pairStates[j].frames

\* C16: a call of update() executes a tick exactly when the call counter
\* reaches a multiple of frameSkip; every other call returns without
\* changing a position, a velocity, a pair state, a pair direction or a
\* last position.
C16_FrameSkipCadence ==
    [][(pc = "idle" /\ frameCounter' # frameCounter) =>
        IF (frameCounter + 1) % frameSkip = 0
          THEN pc' = "decay"
          ELSE /\ pc' = "idle"
               /\ UNCHANGED <<peaks, velocities, pairStates, pairDirections,
                              lastPositions>>]_vars

\* the last call of update() was skipped, after a tick that left a pair and
\* a moving peak behind
C16_Witness ==
    /\ pc = "idle"
    /\ frameCounter = 1
    /\ ticks >= 1
    /\ \E i \in 1..count, j \in 1..count :
          /\ paired(i, j)
          /\ pairStates[j].frames > 0
          /\ velocities[j] # Zero

\* C17: no step of an executed tick writes the vertical component of a
\* position: the y of every peak is the same after the step as before,
\* in the integration as in the approach of a target.
C17_VerticalUnchanged ==
    [][(pc # "idle" \/ pc' # "idle") =>
        \A i \in 1..count :
            /\ i <= Len(peaks')
            /\ Vy(peaks'[i].currentPyramidCenter)
                  = Vy(peaks[i].currentPyramidCenter)]_vars

\* C18: when the peak that is integrated stands exactly where another peak
\* stands, the repulsion step still adds a push for that peak to the force
\* offset, and so does the pairing step if the two are partners.
C18_DegenerateFallback ==
    [][(pc = "force" /\ k' = k + 1 /\ contrib'.index = k) =>
        \A j \in 1..count :
            (j # k /\ positionOf(j) = positionOf(k)) =>
                /\ j \in contrib'.repulsion
                /\ paired(k, j) => contrib'.pairing]_vars

\* C19: a spatial index with a non-positive cell size is never in use: the
\* construction ends in an error, so no insert of a tick ever runs on a
\* grid whose cell size is zero or negative.
C19_InvalidConfigFailsFast ==
    (pc = "constructed" /\ k > 1) => gridCellSize > 0

\* peak m is an eligible candidate of the searching peak i
eligibleCandidate(i, m) ==
    /\ m # i
    /\ eligible(m)
    /\ complementaryCategories(i, m)
    /\ withinFormRadius(i, m)

\* C20: with no category filter active, the first peak of the formation
\* pass that is eligible and has an eligible candidate is linked to a
\* candidate at minimum distance, and among the candidates at that
\* distance to the one with the lowest index.
C20_ClosestCandidate ==
    [][(FormationStep /\ ~categoryFilterActive) =>
        \A i \in 1..count :
            ( /\ eligible(i)
              /\ \E m \in 1..count : eligibleCandidate(i, m)
              /\ \A h \in 1..(i - 1) :
                    ~(eligible(h) /\ \E m \in 1..count : eligibleCandidate(h, m)) ) =>
                LET j == pairStates'[i].partner
                IN  /\ j \in 1..count
                    /\ eligibleCandidate(i, j)
                    /\ \A m \in 1..count :
                          eligibleCandidate(i, m) =>
                              \/ distanceSq(positionOf(i), positionOf(j))
                                    < distanceSq(positionOf(i), positionOf(m))
                              \/ /\ distanceSq(positionOf(i), positionOf(j))
                                       = distanceSq(positionOf(i), positionOf(m))
                                 /\ j <= m]_vars

breaks(i) ==
    /\ i \in DOMAIN pairStates
    /\ pairStates[i].partner # NoPartner
    /\ pairStates'[i].partner = NoPartner

\* peak i was broken by the distance check of the running tick
distanceBrokenNow(lb, t, i) == lb[i].tick = t /\ lb[i].by = "distance"

\* C22: no peak loses a partner twice in one tick; and a peak whose pair the
\* distance check broke in the running tick keeps, to the end of the tick,
\* partner none, cooldown pairCooldown, breakGrace breakGraceFrames and
\* breakPartner the other member, and evaluates no break draw when the
\* per-peak loop processes it.
C22_BreakPrecedence ==
    [][ /\ \A i \in DOMAIN lastBreak : breaks(i) => lastBreak[i].tick # ticks
        /\ \A i \in DOMAIN lastBreak' :
              distanceBrokenNow(lastBreak', ticks', i) =>
                  /\ brokenFrom(pairStates'[i], lastBreak'[i].partner)
                  /\ contrib'.index = i => ~contrib'.drew ]_vars

\* the per-peak loop has just integrated peak i, whose pair the distance
\* check broke in this tick after it had lasted long enough for a draw;
\* the peak evaluated no draw and holds what the distance break wrote
C22_Witness ==
    /\ pc = "force"
    /\ ticks >= 2
    /\ contrib.index \in DOMAIN lastBreak
    /\ distanceBrokenNow(lastBreak, ticks, contrib.index)
    /\ ~contrib.drew
    /\ brokenFrom(pairStates[contrib.index], lastBreak[contrib.index].partner)
    /\ velocities[contrib.index] # Zero


\* C23: a pair is broken by the draw only by a peak whose framesPaired,
\* counted up in that step, exceeds pairMinFrames, and never before
\* pairMinFrames executed ticks have passed since the tick in which the pair
\* formed, whatever the draws.
C23_MinimumPairDuration ==
    [][ \A i \in DOMAIN lastBreak :
           (breaks(i) /\ pc = "force") =>
               /\ pairStates[k].partner # NoPartner
               /\ i \in {k, pairStates[k].partner}
               /\ pairStates[k].frames + 1 > pairMinFrames
               /\ ticks >= lastBreak[i].formed + pairMinFrames ]_vars

\* the draw of a peak processed in every tick since its pair formed has just
\* broken the pair, in the first tick in which the draw is evaluated
C23_Witness ==
    /\ pc = "force"
    /\ contrib.index \in DOMAIN lastBreak
    /\ contrib.drew
    /\ lastBreak[contrib.index].by = "draw"
    /\ lastBreak[contrib.index].tick = ticks
    /\ ticks = lastBreak[contrib.index].formed + pairMinFrames
    /\ lastBreak[contrib.index].partner \in DOMAIN peaks
    /\ withinKeepRadius(contrib.index, lastBreak[contrib.index].partner)
    /\ lastPositions[contrib.index] # positionOf(contrib.index)


\* peak i is a member of a pair
hasPartner(i) == pairStates[i].partner # NoPartner

\* the shared heading of the pair of peak i, stored under the lower index
pairIndexOf(i) == Min(i, pairStates[i].partner)

\* C24: in every step of a tick the heading stored under the lower index of
\* an existing pair changes only in the step that processes the lower-indexed
\* member, which comes at most once per tick because the per-peak loop only
\* advances; the step that processes the higher-indexed member or a peak
\* outside the pair, the distance check and the formation pass leave it as it
\* is, and the formation pass writes only entries that did not exist, so the
\* higher-indexed member reads the value the lower-indexed member left.
C24_PairDirectionOwnership ==
    [][ /\ \A i \in DOMAIN pairStates :
              ( /\ pc # "idle"
                /\ hasPartner(i)
                /\ pairIndexOf(i) \in DOMAIN pairDirections
                /\ pairDirections'[pairIndexOf(i)] # pairDirections[pairIndexOf(i)] ) =>
                  /\ pc = "force"
                  /\ k = pairIndexOf(i)
                  /\ pairDirections[k] # Hole
                  /\ pairDirections'[k] = smoothHeading(pairDirections[k])
        /\ (pc = "force" /\ pc' = "force") => k' = k + 1
        /\ pc = "form" =>
              \A p \in DOMAIN pairDirections :
                  pairDirections[p] # Hole => pairDirections'[p] = pairDirections[p] ]_vars

\* the higher-indexed member of a pair formed in this tick has just been
\* processed, after the lower-indexed member smoothed the shared heading
\* once: the heading is still the value the lower-indexed member left
C24_Witness ==
    /\ pc = "force"
    /\ contrib.index \in DOMAIN pairStates
    /\ hasPartner(contrib.index)
    /\ pairStates[contrib.index].partner < contrib.index
    /\ lastBreak[contrib.index].formed = ticks
    /\ pairDirections[pairIndexOf(contrib.index)] = smoothHeading(0)
    /\ velocities[contrib.index] # Zero
    /\ velocities[pairStates[contrib.index].partner] # Zero


\* C25: in every state, and so at the end of every tick, a pair state with
\* breakGrace 0 has breakPartner none and a pair state with breakGrace > 0
\* has breakPartner equal to the partner of its most recent break, with
\* breakGrace counting the executed ticks left of breakGraceFrames since that
\* break; breakPartner goes from a peak to none only in the countdown that
\* takes breakGrace from 1 to 0.
C25_BreakPartnerValidity ==
    [][ /\ \A i \in DOMAIN pairStates' :
              /\ pairStates'[i].breakGrace = 0 =>
                    pairStates'[i].breakPartner = NoPartner
              /\ pairStates'[i].breakGrace > 0 =>
                    /\ i \in DOMAIN lastBreak'
                    /\ lastBreak'[i].tick # 0
                    /\ pairStates'[i].breakPartner = lastBreak'[i].partner
                    /\ pc' # "decay" =>
                          pairStates'[i].breakGrace =
                              breakGraceFrames - (ticks' - lastBreak'[i].tick)
        /\ \A i \in DOMAIN pairStates :
              ( /\ pairStates[i].breakPartner # NoPartner
                /\ pairStates'[i].breakPartner = NoPartner ) =>
                  /\ pc = "decay"
                  /\ pairStates[i].breakGrace = 1
                  /\ pairStates'[i].breakGrace = 0 ]_vars

\* the countdown of the tick breakGraceFrames after a break has just run:
\* the grace of the broken peak is used up and its breakPartner is cleared
C25_Witness ==
    /\ pc = "break"
    /\ \E i \in DOMAIN lastBreak :
          /\ lastBreak[i].tick # 0
          /\ ticks = lastBreak[i].tick + breakGraceFrames
          /\ pairStates[i].breakGrace = 0
          /\ pairStates[i].breakPartner = NoPartner
          /\ pairStates[i].partner = NoPartner


\* the way left from position p to target t, summed over the components
remaining(p, t) ==
    LET abs(d) == IF d >= 0 THEN d ELSE 0 - d
    IN  abs(t[1] - p[1]) + abs(t[2] - p[2]) + abs(t[3] - p[3])

\* peak i is processed by the running step of the per-peak loop: it is
\* visible and the movement is not stopped
processedNow(i) ==
    /\ pc = "force"
    /\ k = i
    /\ ~invisible(categoryFilterActive, peaks[i])
    /\ ~stopAllMovement

\* C26: as stated, a peak that is still approaching its soft-lock target at
\* the end of an executed tick has come closer to the target during that
\* tick (so that it arrives after finitely many executed ticks).
C26_MovesEveryTick ==
    (pc = "force" /\ k > count) =>
        \A i \in 1..count :
            softLocked(peaks[i]) =>
                remaining(positionOf(i), peaks[i].evolvingTargetCenter)
                    < remaining(preTick[i], peaks[i].evolvingTargetCenter)

\* C26, amended: during a tick a peak with a soft-lock target is moved only
\* by the interpolation step, in the step of the per-peak loop that processes
\* it while it is visible and the movement is not stopped; that step skips
\* the integration (the stored velocities stay), brings the peak strictly
\* closer to the target unless it is there, and sets the lock exactly when the position equals
\* the target, so the peak arrives after finitely many such ticks; every
\* other step of a tick, and every step once the lock is set, leaves its
\* position and its lock as they are.
C26_SoftLockLatches ==
    [][ \A i \in 1..count :
           (pc # "idle" /\ peaks[i].evolvingTargetCenter # NoTarget) =>
               IF softLocked(peaks[i]) /\ processedNow(i)
                 THEN /\ positionOf(i)' =
                            lerp(positionOf(i), peaks[i].evolvingTargetCenter)
                      /\ \/ positionOf(i) = peaks[i].evolvingTargetCenter
                         \/ remaining(positionOf(i)', peaks[i].evolvingTargetCenter)
                               < remaining(positionOf(i), peaks[i].evolvingTargetCenter)
                      /\ peaks'[i].evolvingLock =
                            (positionOf(i)' = peaks[i].evolvingTargetCenter)
                      /\ velocities' = velocities
                 ELSE /\ positionOf(i)' = positionOf(i)
                      /\ peaks'[i].evolvingLock = peaks[i].evolvingLock ]_vars

\* a peak that approached its target in an earlier tick has just arrived:
\* the step that processed it moved it onto the target and set the lock
C26_Witness ==
    /\ pc = "force"
    /\ ticks >= 2
    /\ k - 1 \in 1..count
    /\ peaks[k - 1].evolvingTargetCenter # NoTarget
    /\ peaks[k - 1].evolvingLock
    /\ positionOf(k - 1) = peaks[k - 1].evolvingTargetCenter
    /\ remaining(preTick[k - 1], peaks[k - 1].evolvingTargetCenter) = 1
    /\ remaining(lastPositions[k - 1], peaks[k - 1].evolvingTargetCenter) = 1
    /\ velocities[k - 1] = Zero


\* C27: the last position recorded for every peak at the end of a tick is
\* the position the peak had when the tick began, so that in the next tick
\* the current position minus the last position is the displacement of the
\* tick before.
C27_LastPositionIsPreTick ==
    [][ (pc = "force" /\ k > count) =>
            \A i \in 1..count : lastPositions'[i] = preTick[i] ]_vars


\* _applyRepulsionForces line 1164: the radius of the neighbour query
searchRadius == Max(minSeparation, complementaryRange)

\* C28: whenever the per-peak loop is about to compute the forces of peak k,
\* the neighbour query of peak k on the grid built at the start of the tick
\* returns every other peak whose current position lies within the query
\* radius of the current position of peak k.
C28_NoStalenessInsideTick ==
    ( /\ pc = "force"
      /\ k <= count
      /\ ~invisible(categoryFilterActive, peaks[k])
      /\ ~stopAllMovement
      /\ ~locked(evolvingActive, peaks[k])
      /\ ~softLocked(peaks[k]) ) =>
        \A j \in 1..count :
            ( /\ j # k
              /\ distanceSq(positionOf(k), positionOf(j)) <= Sq(searchRadius) ) =>
                j \in Range(getNearby(grid, positionOf(k), searchRadius))


\* C29: in the state the formation pass leaves there are no two distinct
\* peaks that are both unpaired with cooldown 0, both have a category, have
\* complementary categories in at least one direction and stand within the
\* formation radius of each other, a distance equal to the radius included.
C29_FormationIsMaximal ==
    AfterFormation =>
        \A i, j \in 1..count :
            ( /\ i # j
              /\ readyToPair(i)
              /\ readyToPair(j)
              /\ complementaryCategories(i, j) ) =>
                ~withinFormRadius(i, j)

\* the formation pass of this tick has linked two peaks that stand exactly
\* the formation radius apart
C29_Witness ==
    /\ AfterFormation
    /\ \E i, j \in 1..count :
          /\ i # j
          /\ paired(i, j)
          /\ lastBreak[i].formed = ticks
          /\ lastBreak[j].formed = ticks
          /\ distanceSq(positionOf(i), positionOf(j)) = Sq(pairFormRadius)


\* C30: while stopAllMovement is set, no step of update() (no step other
\* than a call made between ticks) changes the position of a peak or a
\* stored velocity, whatever the pair states and the neighbours are.
C30_StopAllMovementFreeze ==
    [][ (stopAllMovement /\ calls' = calls) =>
            /\ \A i \in DOMAIN peaks :
                  peaks'[i].currentPyramidCenter = peaks[i].currentPyramidCenter
            /\ \A i \in DOMAIN velocities : velocities'[i] = velocities[i] ]_vars

\* with the movement stopped, the per-peak loop has just passed over a
\* visible, unlocked peak that has a partner within the minimum separation
\* and a stored velocity, and the peak stands where it stood
C30_Witness ==
    /\ pc = "force"
    /\ stopAllMovement
    /\ k - 1 \in 1..count
    /\ ~invisible(categoryFilterActive, peaks[k - 1])
    /\ ~locked(evolvingActive, peaks[k - 1])
    /\ hasPartner(k - 1)
    /\ pairStates[k - 1].partner \in 1..count
    /\ repulsionPushes(peaks, k - 1, pairStates[k - 1].partner)
    /\ velocities[k - 1] # Zero
    /\ positionOf(k - 1) = preTick[k - 1]

=============================================================================
